---------------------------- MODULE Spec2Model ----------------------------
(***************************************************************************)
(* res/tools/generate-md-icons.py: a linear script that rasterizes a fixed *)
(* catalog of Material Design icons and symbols with two external tools.   *)
(*                                                                         *)
(* A path is the sequence of its components, so that the directory of a    *)
(* file is a prefix of its path; a file name is a string built with \o as  *)
(* str.format builds it.  The filesystem is a function from the paths of   *)
(* the existing files to their content, and a set of existing directories. *)
(* The external tools (mkdir, convert, mogrify) are the environment: each  *)
(* is modelled by what its documented behaviour does to the filesystem,    *)
(* and may fail.                                                           *)
(***************************************************************************)
EXTENDS Naturals, Sequences, FiniteSets, TLC

VARIABLES
    argv,       \* sys.argv of the current invocation of the script
    pc,         \* the statement the script is at
    md_dir,     \* the script's variable md_dir
    gi,         \* position of the outer icon loop in ICONS.items()
    ni,         \* position of the inner icon loop in the group's names
    si,         \* position of the symbol loop in SYMBOLS
    outfile,    \* the script's variable outfile
    fs,         \* the files that exist: path -> content
    dirs,       \* the directories that exist under the working directory
    log,        \* the external invocations of this run, in order, each
                \* with its exit status
    faults,     \* environment faults so far (bounded by MaxFaults)
    run,        \* "first" or "second" run of the script
    fs0,        \* fs when the first run started
    dirs0,      \* dirs when the first run started
    prev        \* what the first run left and how its invocations ended,
                \* once a second run has started

vars == <<argv, pc, md_dir, gi, ni, si, outfile, fs, dirs, log, faults, run,
          fs0, dirs0, prev>>

-----------------------------------------------------------------------------
(* Bounds *)

\* At most this many faults of the environment in one behaviour: a source
\* SVG missing from the icon repository, an external invocation that fails
\* though it could have succeeded.  Failures that follow from the state of
\* the filesystem (a missing input, a missing directory) are not counted.
MaxFaults == 1

-----------------------------------------------------------------------------
(* The catalogs *)

\* Mutant: stop is listed a second time, under action.
ICONS_dup ==
    << [group |-> "av",     icons |-> <<"play_arrow", "pause", "stop">>],
       [group |-> "action", icons |-> <<"drag_indicator", "stop">>] >>

\* A dict keeps insertion order: ICONS.items() yields av, then action.
ICONS ==
    << [group |-> "av",     icons |-> <<"play_arrow", "pause", "stop">>],
       [group |-> "action", icons |-> <<"drag_indicator">>] >>

SYMBOLS ==
    << "drag_indicator", "file_open", "file_save", "new_window",
       "piano", "play_arrow", "stop", "view_timeline" >>

Density == 576

-----------------------------------------------------------------------------
(* Paths built by the script *)

IconsDir == <<"res", "images", "md-icons">>

SymbolsDir == <<"res", "images", "md-symbols">>

\* Mutant: the icons are written into the symbols' directory.
IconOutfile_symbols(name) == <<"res", "images", "md-symbols", name \o ".png">>

\* "res/images/md-icons/{name}.png"
IconOutfile(name) == <<"res", "images", "md-icons", name \o ".png">>

\* Mutant: the input of the conversion is the output file itself.
IconSvg_inplace(dir, group, name) ==
    <<"res", "images", "md-icons", name \o ".png">>

\* "{md_dir}/src/{group}/{name}/materialicons/24px.svg"
IconSvg(dir, group, name) ==
    <<dir, "src", group, name, "materialicons", "24px.svg">>

\* Mutant: the extension is left out of the output name.
SymbolOutfile_noext(symbol) == <<"res", "images", "md-symbols", symbol>>

\* Mutant: the symbols are written into the icons' directory.
SymbolOutfile_icons(symbol) == <<"res", "images", "md-icons", symbol \o ".png">>

\* "res/images/md-symbols/{symbol}.png"
SymbolOutfile(symbol) == <<"res", "images", "md-symbols", symbol \o ".png">>

\* "{md_dir}/symbols/web/{symbol}/materialsymbolssharp/{symbol}_wght100_24px.svg"
SymbolSvg(dir, symbol) ==
    <<dir, "symbols", "web", symbol, "materialsymbolssharp",
      symbol \o "_wght100_24px.svg">>

\* Mutant: mkdir without -p.
MkdirArgs_plain(dir) == <<"mkdir", dir>>

MkdirArgs(dir) == <<"mkdir", "-p", dir>>

ConvertArgs(svg, out) ==
    <<"convert", svg, "-density", Density, "-background", "none",
      "-negate", out>>

\* Mutant: mogrify is pointed at the directory, not at the file.
MogrifyArgs_dir(out) ==
    <<"mogrify", "-strip", SubSeq(out, 1, Len(out) - 1)>>

MogrifyArgs(out) == <<"mogrify", "-strip", out>>

-----------------------------------------------------------------------------
(* The external tools *)

DirOf(path) == SubSeq(path, 1, Len(path) - 1)

\* A directory and all its ancestors, as mkdir -p creates them.
Prefixes(path) == { SubSeq(path, 1, k) : k \in 1..Len(path) }

Exists(f, path) == path \in DOMAIN f

WriteFile(f, path, content) ==
    [p \in DOMAIN f \cup {path} |-> IF p = path THEN content ELSE f[p]]

\* The image a source SVG holds: dark on transparent, with metadata.
SvgImage(path) ==
    [fmt |-> "svg", img |-> path, negated |-> FALSE, density |-> 0,
     meta |-> TRUE, bytes |-> 1]

\* convert <in> -density d -background none -negate <out>
Rasterize(image, density) ==
    [fmt |-> "png", img |-> image.img, negated |-> ~image.negated,
     density |-> density, meta |-> TRUE, bytes |-> 1]

\* mogrify -strip
Strip(image) == [image EXCEPT !.meta = FALSE]

\* What a tool that died while writing leaves behind.
Truncated ==
    [fmt |-> "none", img |-> <<>>, negated |-> FALSE, density |-> 0,
     meta |-> FALSE, bytes |-> 0]

\* A PNG left in an output directory by something before the run.
StalePng ==
    [fmt |-> "png", img |-> <<"old">>, negated |-> TRUE, density |-> 72,
     meta |-> TRUE, bytes |-> 1]

IsImage(image) == image.fmt \in {"svg", "png"}

\* What one invocation does: its exit status, whether it died leaving a
\* truncated output, the filesystem it leaves, and whether it counts as a
\* fault of the environment.
Outcome(rc, partial, f, d, fault) ==
    [rc |-> rc, partial |-> partial, fs |-> f, dirs |-> d, fault |-> fault]

\* mkdir [-p] <dir>: with -p the ancestors are created and an existing
\* directory is no error; without it the parent must exist and the
\* directory must not.  Creating a directory may fail (permissions).
ExecMkdir(args, f, d) ==
    LET recursive == args[2] = "-p"
        dir == args[Len(args)]
    IN  IF dir \in d
        THEN { Outcome(IF recursive THEN 0 ELSE 1, FALSE, f, d, 0) }
        ELSE IF ~recursive /\ Len(dir) > 1 /\ DirOf(dir) \notin d
        THEN { Outcome(1, FALSE, f, d, 0) }
        ELSE { Outcome(0, FALSE, f,
                       d \cup (IF recursive THEN Prefixes(dir) ELSE {dir}), 0),
               Outcome(1, FALSE, f, d, 1) }

\* convert: reads its input first and fails, writing nothing, when the
\* input is missing or no image; it cannot write into a missing directory.
\* Otherwise it writes the rasterized image, or fails, leaving the output
\* as it was or truncated.
ExecConvert(args, f, d) ==
    LET svg == args[2]
        density == args[4]
        out == args[Len(args)]
    IN  IF ~Exists(f, svg) \/ DirOf(out) \notin d
        THEN { Outcome(1, FALSE, f, d, 0) }
        ELSE IF ~IsImage(f[svg])
        THEN { Outcome(1, FALSE, f, d, 0) }
        ELSE { Outcome(0, FALSE,
                       WriteFile(f, out, Rasterize(f[svg], density)), d, 0),
               Outcome(1, FALSE, f, d, 1),
               Outcome(1, TRUE, WriteFile(f, out, Truncated), d, 1) }

\* mogrify -strip <out>: rewrites the image in place without its metadata;
\* fails, changing nothing, when the file is missing or is no image.
ExecMogrify(args, f, d) ==
    LET out == args[Len(args)]
    IN  IF ~Exists(f, out)
        THEN { Outcome(1, FALSE, f, d, 0) }
        ELSE IF ~IsImage(f[out])
        THEN { Outcome(1, FALSE, f, d, 0) }
        ELSE { Outcome(0, FALSE, WriteFile(f, out, Strip(f[out])), d, 0),
               Outcome(1, FALSE, f, d, 1) }

Exec(args, f, d) ==
    IF args[1] = "mkdir" THEN ExecMkdir(args, f, d)
    ELSE IF args[1] = "convert" THEN ExecConvert(args, f, d)
    ELSE ExecMogrify(args, f, d)

-----------------------------------------------------------------------------
(* The script *)

\* Mutant: check=True, a failing invocation raises CalledProcessError.
Proceed_check(rc, next) == IF rc = 0 THEN next ELSE "failed"

\* subprocess.run(args) without check=True: the CompletedProcess is dropped,
\* the script goes on to the next statement whatever the exit status.
Proceed(rc, next) == next

\* subprocess.run(args): start the process and wait until it has exited.
SubprocessRun(args, next) ==
    \E o \in Exec(args, fs, dirs) :
        /\ faults + o.fault <= MaxFaults
        /\ faults' = faults + o.fault
        /\ fs' = o.fs
        /\ dirs' = o.dirs
        /\ log' = Append(log, [args |-> args, rc |-> o.rc,
                                partial |-> o.partial])
        /\ pc' = Proceed(o.rc, next)

\* Where the icon loops stand after the names of group g up to n are done.
IconLoopNext(g, n) ==
    IF g \in 1..Len(ICONS) /\ n < Len(ICONS[g].icons) THEN [pc |-> "icon_convert", gi |-> g, ni |-> n + 1]
    ELSE IF \E h \in (g + 1)..Len(ICONS) : Len(ICONS[h].icons) > 0
    THEN [pc |-> "icon_convert",
          gi |-> CHOOSE h \in (g + 1)..Len(ICONS) :
                    /\ Len(ICONS[h].icons) > 0
                    /\ \A k \in (g + 1)..(h - 1) : Len(ICONS[k].icons) = 0,
          ni |-> 1]
    ELSE [pc |-> IF Len(SYMBOLS) > 0 THEN "symbol_convert" ELSE "done",
          gi |-> g, ni |-> n]

\* Mutant: a missing argument defaults to the working directory.
ReadArgv_default ==
    /\ pc = "start"
    /\ pc' = "mkdir_icons"
    /\ md_dir' = IF Len(argv) < 2 THEN "." ELSE argv[2]
    /\ UNCHANGED <<argv, gi, ni, si, outfile, fs, dirs, log, faults, run,
                   fs0, dirs0, prev>>

\* md_dir = sys.argv[1]: IndexError when the argument is missing.  The
\* print that follows writes to standard output only.
ReadArgv ==
    /\ pc = "start"
    /\ IF Len(argv) < 2
       THEN pc' = "failed" /\ UNCHANGED md_dir
       ELSE pc' = "mkdir_icons" /\ md_dir' = argv[2]
    /\ UNCHANGED <<argv, gi, ni, si, outfile, fs, dirs, log, faults, run,
                   fs0, dirs0, prev>>

\* subprocess.run(["mkdir", "-p", "res/images/md-icons"])
MkdirIcons ==
    /\ pc = "mkdir_icons"
    /\ SubprocessRun(MkdirArgs(IconsDir), "mkdir_symbols")
    /\ UNCHANGED <<argv, md_dir, gi, ni, si, outfile, run, fs0, dirs0, prev>>

\* subprocess.run(["mkdir", "-p", "res/images/md-symbols"]); the icon loops
\* start at (0, 0) as IconLoopNext gives it.
MkdirSymbols ==
    /\ pc = "mkdir_symbols"
    /\ LET first == IconLoopNext(0, 0)
       IN  /\ SubprocessRun(MkdirArgs(SymbolsDir), first.pc)
           /\ gi' = first.gi
           /\ ni' = first.ni
           /\ si' = IF first.pc = "symbol_convert" THEN 1 ELSE si
    /\ UNCHANGED <<argv, md_dir, outfile, run, fs0, dirs0, prev>>

\* outfile = ...; args = ["convert", ...]; subprocess.run(args)
IconConvert ==
    /\ pc = "icon_convert"
    /\ LET group == ICONS[gi].group
           name == ICONS[gi].icons[ni]
           out == IconOutfile(name)
       IN  /\ outfile' = out
           /\ SubprocessRun(ConvertArgs(IconSvg(md_dir, group, name), out),
                            "icon_mogrify")
    /\ UNCHANGED <<argv, md_dir, gi, ni, si, run, fs0, dirs0, prev>>

\* subprocess.run(["mogrify", "-strip", outfile]); next name, next group, or
\* on to the symbols
IconMogrify ==
    /\ pc = "icon_mogrify"
    /\ LET next == IconLoopNext(gi, ni)
       IN  /\ SubprocessRun(MogrifyArgs(outfile), next.pc)
           /\ gi' = next.gi
           /\ ni' = next.ni
           /\ si' = IF next.pc = "symbol_convert" THEN 1 ELSE si
    /\ UNCHANGED <<argv, md_dir, outfile, run, fs0, dirs0, prev>>

\* outfile = ...; args = ["convert", ...]; subprocess.run(args)
SymbolConvert ==
    /\ pc = "symbol_convert"
    /\ LET symbol == SYMBOLS[si]
           out == SymbolOutfile(symbol)
       IN  /\ outfile' = out
           /\ SubprocessRun(ConvertArgs(SymbolSvg(md_dir, symbol), out),
                            "symbol_mogrify")
    /\ UNCHANGED <<argv, md_dir, gi, ni, si, run, fs0, dirs0, prev>>

\* subprocess.run(["mogrify", "-strip", outfile]); next symbol or the end
SymbolMogrify ==
    /\ pc = "symbol_mogrify"
    /\ SubprocessRun(MogrifyArgs(outfile),
                     IF si < Len(SYMBOLS) THEN "symbol_convert" ELSE "done")
    /\ si' = IF si < Len(SYMBOLS) THEN si + 1 ELSE si
    /\ UNCHANGED <<argv, md_dir, gi, ni, outfile, run, fs0, dirs0, prev>>

\* The developer runs the script again with the same argument, in the same
\* working directory, on what the first run left.
Rerun ==
    /\ pc = "done"
    /\ run = "first"
    /\ run' = "second"
    /\ prev' = [fs |-> fs, dirs |-> dirs,
                 log |-> [i \in 1..Len(log) |-> <<log[i].rc, log[i].partial>>]]
    /\ pc' = "start"
    /\ md_dir' = ""
    /\ gi' = 0
    /\ ni' = 0
    /\ si' = 0
    /\ outfile' = <<>>
    /\ log' = <<>>
    /\ UNCHANGED <<argv, fs, dirs, faults, fs0, dirs0>>

-----------------------------------------------------------------------------
(* The environment the script is started in *)

Script == "res/tools/generate-md-icons.py"

BaseDir == "material-design-icons"

\* The layout of the icon repository, which the script depends on and does
\* not own: src/<group>/<name>/materialicons/24px.svg and
\* symbols/web/<name>/materialsymbolssharp/<name>_wght100_24px.svg.
UpstreamIcons ==
    { <<"av", "play_arrow">>, <<"av", "pause">>, <<"av", "stop">>,
      <<"action", "drag_indicator">> }

UpstreamSymbols ==
    { "drag_indicator", "file_open", "file_save", "new_window",
      "piano", "play_arrow", "stop", "view_timeline" }

UpstreamFiles ==
    { <<BaseDir, "src", e[1], e[2], "materialicons", "24px.svg">> :
        e \in UpstreamIcons } \cup
    { <<BaseDir, "symbols", "web", s, "materialsymbolssharp",
        s \o "_wght100_24px.svg">> : s \in UpstreamSymbols }

\* Files that may lie in the output directories before the run: one for
\* every upstream icon and symbol name in either directory, whether the
\* catalogs list it there or not (pause is no symbol of the catalog, piano
\* no icon).
LeftoverFiles ==
    { <<"res", "images", "md-icons", n \o ".png">> :
        n \in { e[2] : e \in UpstreamIcons } \cup {"piano"} } \cup
    { <<"res", "images", "md-symbols", n \o ".png">> :
        n \in UpstreamSymbols \cup {"pause"} }

\* What the output directories may hold before the run: nothing, or what
\* an earlier conversion left in one of them or in both.
LeftoverConfigs ==
    { { p \in LeftoverFiles : DirOf(p) \in D } :
        D \in SUBSET { <<"res", "images", "md-icons">>,
                       <<"res", "images", "md-symbols">> } }

\* The directories that may exist under the working directory.
DirConfigs ==
    { UNION { Prefixes(d) : d \in S } :
        S \in SUBSET { <<"res">>, <<"res", "images">>,
                       <<"res", "images", "md-icons">>,
                       <<"res", "images", "md-symbols">> } }

RECURSIVE SubsetsUpTo(_, _)
SubsetsUpTo(S, k) ==
    IF k = 0 THEN { {} }
    ELSE LET smaller == SubsetsUpTo(S, k - 1)
         IN  smaller \cup { T \cup {x} : T \in smaller, x \in S }

Init ==
    /\ argv \in { <<Script>>, <<Script, BaseDir>> }
    /\ pc = "start"
    /\ md_dir = ""
    /\ gi = 0
    /\ ni = 0
    /\ si = 0
    /\ outfile = <<>>
    /\ log = <<>>
    /\ run = "first"
    /\ dirs \in DirConfigs
    /\ \E missing \in SubsetsUpTo(UpstreamFiles, MaxFaults),
          leftover \in LeftoverConfigs :
          /\ \A p \in leftover : DirOf(p) \in dirs
          /\ fs = [p \in (UpstreamFiles \ missing) \cup leftover |->
                      IF p \in UpstreamFiles THEN SvgImage(p) ELSE StalePng]
          /\ faults = Cardinality(missing)
    /\ fs0 = fs
    /\ dirs0 = dirs
    /\ prev = [fs |-> fs, dirs |-> dirs, log |-> <<>>]

Next ==
    \/ ReadArgv
    \/ MkdirIcons
    \/ MkdirSymbols
    \/ IconConvert
    \/ IconMogrify
    \/ SymbolConvert
    \/ SymbolMogrify

Spec == Init /\ [][Next]_vars

NextTwice == Next \/ Rerun

\* The working directories the two runs in a row are followed in: a fresh
\* checkout, one where only res/images/md-icons exists, filled by an earlier
\* conversion, and one where both output directories exist and are filled.
InitTwice ==
    /\ Init
    /\ Len(argv) = 2
    /\ \/ dirs = {}
       \/ /\ dirs = Prefixes(IconsDir)
          /\ \A p \in LeftoverFiles : DirOf(p) = IconsDir => p \in DOMAIN fs
       \/ /\ dirs = Prefixes(IconsDir) \cup Prefixes(SymbolsDir)
          /\ LeftoverFiles \subseteq DOMAIN fs

SpecTwice == InitTwice /\ [][NextTwice]_vars

TypeOK ==
    /\ pc \in { "start", "failed", "mkdir_icons", "mkdir_symbols",
                "icon_convert", "icon_mogrify", "symbol_convert",
                "symbol_mogrify", "done" }
    /\ faults \in 0..MaxFaults
    /\ run \in { "first", "second" }

-----------------------------------------------------------------------------
(* What the claims speak of, spelled as the claims spell it *)

\* The (group, name) pairs of the icon catalog.
IconPairs ==
    UNION { { <<ICONS[g].group, ICONS[g].icons[n]>> :
                n \in 1..Len(ICONS[g].icons) } : g \in 1..Len(ICONS) }

SymbolNames == { SYMBOLS[i] : i \in 1..Len(SYMBOLS) }

\* <base>/src/<group>/<name>/materialicons/24px.svg
IconSource(e) == <<argv[2], "src", e[1], e[2], "materialicons", "24px.svg">>

\* res/images/md-icons/<name>.png
IconPng(name) == <<"res", "images", "md-icons", name \o ".png">>

\* <base>/symbols/web/<name>/materialsymbolssharp/<name>_wght100_24px.svg
SymbolSource(s) ==
    <<argv[2], "symbols", "web", s, "materialsymbolssharp",
      s \o "_wght100_24px.svg">>

\* res/images/md-symbols/<name>.png
SymbolPng(name) == <<"res", "images", "md-symbols", name \o ".png">>

\* The output files of the listed entries.
ListedOutputs ==
    { IconPng(e[2]) : e \in IconPairs } \cup { SymbolPng(s) : s \in SymbolNames }

IsConvert(entry) == entry.args[1] = "convert"

IsMogrify(entry) == entry.args[1] = "mogrify"

IsMkdir(entry) == entry.args[1] = "mkdir"

Target(entry) == entry.args[Len(entry.args)]

\* The rasterize invocation that read svg exited with 0, and so did the
\* strip invocation that followed it.
BothSucceeded(svg) ==
    \E i \in 1..(Len(log) - 1) :
        /\ IsConvert(log[i]) /\ log[i].args[2] = svg /\ log[i].rc = 0
        /\ IsMogrify(log[i + 1]) /\ log[i + 1].rc = 0

NonEmptyFile(path) == path \in DOMAIN fs /\ fs[path].bytes > 0

\* C1: for every (group, name) of the icon catalog whose source SVG exists
\* and on which both external tools succeed, res/images/md-icons/<name>.png
\* exists and is non-empty when the run has finished.
C1_IconOutputsProduced ==
    pc = "done" =>
        \A e \in IconPairs :
            (IconSource(e) \in DOMAIN fs0 /\ BothSucceeded(IconSource(e)))
                => NonEmptyFile(IconPng(e[2]))

\* A finished run in which both tools succeeded on one icon and one
\* invocation for another entry failed.
C1_Witness ==
    /\ pc = "done"
    /\ \E e \in IconPairs :
          /\ IconSource(e) \in DOMAIN fs0
          /\ BothSucceeded(IconSource(e))
          /\ IconPng(e[2]) \notin DOMAIN fs0
    /\ \E i \in 1..Len(log) : log[i].rc # 0

\* C2: for every name of the symbol catalog whose source SVG exists and on
\* which both external tools succeed, res/images/md-symbols/<name>.png
\* exists and is non-empty when the run has finished.
C2_SymbolOutputsProduced ==
    pc = "done" =>
        \A s \in SymbolNames :
            (SymbolSource(s) \in DOMAIN fs0 /\ BothSucceeded(SymbolSource(s)))
                => NonEmptyFile(SymbolPng(s))

\* A finished run in which both tools succeeded on one symbol whose output
\* did not exist before, and the source of another symbol was missing.
C2_Witness ==
    /\ pc = "done"
    /\ \E s \in SymbolNames :
          /\ SymbolSource(s) \in DOMAIN fs0
          /\ BothSucceeded(SymbolSource(s))
          /\ SymbolPng(s) \notin DOMAIN fs0
    /\ \E s \in SymbolNames : SymbolSource(s) \notin DOMAIN fs0

\* The source and the output of every listed entry.
ListedEntries ==
    { <<IconSource(e), IconPng(e[2])>> : e \in IconPairs } \cup
    { <<SymbolSource(s), SymbolPng(s)>> : s \in SymbolNames }

\* C3 as stated: when the source SVG of a listed entry is absent, its output
\* file is absent after the run, whatever the output directories held.
C3_AbsentSourceAbsentOutput ==
    pc = "done" =>
        \A e \in ListedEntries :
            e[1] \notin DOMAIN fs0 => e[2] \notin DOMAIN fs

\* C3 amended: when the source SVG of a listed entry is absent, the run does
\* not create its output file: the file is absent after the run if it was
\* absent before, and a file that was there before is still there, as it
\* was or with its metadata stripped.
C3_AbsentSourceNoNewOutput ==
    pc = "done" =>
        \A e \in ListedEntries :
            e[1] \notin DOMAIN fs0 =>
                IF e[2] \in DOMAIN fs0
                THEN /\ e[2] \in DOMAIN fs
                     /\ fs[e[2]] \in { fs0[e[2]], Strip(fs0[e[2]]) }
                ELSE e[2] \notin DOMAIN fs

\* A finished run with a missing source whose output directory existed and
\* held no file for it, while other entries of the directory were written.
C3_Witness ==
    /\ pc = "done"
    /\ \E e \in ListedEntries :
          /\ e[1] \notin DOMAIN fs0
          /\ e[2] \notin DOMAIN fs
          /\ DirOf(e[2]) \in dirs
          /\ \E o \in ListedEntries : DirOf(o[2]) = DirOf(e[2]) /\ o[2] \in DOMAIN fs

\* C4: a run creates or overwrites only the output files of the listed
\* entries and the two output directories (with their ancestors); every
\* other file is as it was, and no directory goes away.
C4_OnlyListedOutputsChange ==
    /\ \A p \in (DOMAIN fs0 \cup DOMAIN fs) \ ListedOutputs :
          p \in DOMAIN fs0 /\ p \in DOMAIN fs /\ fs[p] = fs0[p]
    /\ dirs0 \subseteq dirs
    /\ dirs \subseteq dirs0 \cup Prefixes(<<"res", "images", "md-icons">>)
                            \cup Prefixes(<<"res", "images", "md-symbols">>)

\* A finished run that wrote listed outputs next to files for unlisted
\* names in both output directories.
C4_Witness ==
    /\ pc = "done"
    /\ IconPng("piano") \in DOMAIN fs
    /\ SymbolPng("pause") \in DOMAIN fs
    /\ \E p \in ListedOutputs : p \in DOMAIN fs /\ p \in DOMAIN fs0 /\ fs[p] # fs0[p]
    /\ \E p \in ListedOutputs : DirOf(p) = IconsDir /\ fs[p].fmt = "png" /\ ~fs[p].meta
                                /\ fs[p].img # <<"old">>

\* Every invocation of this run ended as the invocation at the same place
\* of the first run did: the same exit status, and either both or neither
\* died leaving a truncated output.
SameOutcomes ==
    /\ Len(log) = Len(prev.log)
    /\ \A i \in 1..Len(log) : <<log[i].rc, log[i].partial>> = prev.log[i]

IsMkdirP(entry, dir) ==
    /\ entry.args[1] = "mkdir"
    /\ Len(entry.args) = 3
    /\ entry.args[2] = "-p"
    /\ entry.args[3] = dir

\* C6: the first two invocations of a run are mkdir -p res/images/md-icons
\* and mkdir -p res/images/md-symbols, both issued before any rasterize
\* invocation; each succeeds when its directory is already there, and a
\* successful one leaves the directory and its ancestors in place.
C6_OutputDirsPrepared ==
    /\ pc \in { "mkdir_symbols" } => Len(log) = 1
    /\ pc \in { "icon_convert", "icon_mogrify", "symbol_convert",
                "symbol_mogrify", "done" } => Len(log) >= 2
    /\ Len(log) >= 1 => IsMkdirP(log[1], <<"res", "images", "md-icons">>)
    /\ Len(log) >= 2 => IsMkdirP(log[2], <<"res", "images", "md-symbols">>)
    /\ \A i \in 1..Len(log) : IsConvert(log[i]) => i > 2
    /\ \A i \in 1..Len(log) :
          i <= 2 =>
              /\ Target(log[i]) \in dirs0 => log[i].rc = 0
              /\ log[i].rc = 0 => Prefixes(Target(log[i])) \subseteq dirs
    /\ dirs0 \subseteq dirs

\* A run that found one output directory in place and created the other
\* with its ancestors, and has rasterized.
C6_Witness ==
    /\ \E i \in 1..Len(log) : IsConvert(log[i]) /\ log[i].rc = 0
    /\ \E i, j \in 1..2 :
          /\ Target(log[i]) \in dirs0
          /\ Target(log[j]) \notin dirs0
          /\ Target(log[j]) \in dirs

\* C7: when the base directory argument is missing the script fails at
\* sys.argv[1], before any directory is created or any process is invoked:
\* the filesystem is as it was.
C7_MissingArgumentFailsFirst ==
    (Len(argv) < 2 /\ pc # "start") =>
        /\ pc = "failed"
        /\ log = <<>>
        /\ fs = fs0
        /\ dirs = dirs0

\* The script has failed for want of its argument, in a working directory
\* without output directories.
C7_Witness ==
    /\ Len(argv) < 2
    /\ pc = "failed"
    /\ <<"res", "images", "md-icons">> \notin dirs

\* The output directory a rasterize invocation writes into.
OutDir(entry) == DirOf(Target(entry))

\* C8: invocations come in pairs, one pair after the other: every rasterize
\* invocation is followed at once by the strip invocation of the same output
\* file, every strip invocation follows at once the rasterize invocation of
\* its file, and every invocation for an icon precedes every invocation for
\* a symbol (after an invocation for a symbol come only invocations for
\* symbols, and while the icon loops run the last one was for an icon).
C8_StrictlySequential ==
    /\ \A i \in 1..Len(log) :
          IsConvert(log[i]) =>
              IF i < Len(log)
              THEN IsMogrify(log[i + 1]) /\ Target(log[i + 1]) = Target(log[i])
              ELSE pc \in { "icon_mogrify", "symbol_mogrify" }
                   /\ outfile = Target(log[i])
    /\ \A i \in 1..Len(log) :
          IsMogrify(log[i]) =>
              /\ i > 1
              /\ IsConvert(log[i - 1])
              /\ Target(log[i - 1]) = Target(log[i])
              /\ Len(log[i].args) = 3
              /\ log[i].args[2] = "-strip"
    /\ \A i \in 1..(Len(log) - 1) :
          (~IsMkdir(log[i]) /\ OutDir(log[i]) = <<"res", "images", "md-symbols">>)
              => OutDir(log[i + 1]) = <<"res", "images", "md-symbols">>
    /\ (pc \in { "icon_convert", "icon_mogrify" } /\ ~IsMkdir(log[Len(log)]))
          => OutDir(log[Len(log)]) = <<"res", "images", "md-icons">>

\* A finished run: icons then symbols, with a strip that ran on the output
\* of a rasterize invocation that had failed.
C8_Witness ==
    /\ pc = "done"
    /\ \E i, j \in 1..Len(log) :
          /\ i < j
          /\ IsConvert(log[i]) /\ OutDir(log[i]) = <<"res", "images", "md-icons">>
          /\ IsMogrify(log[j]) /\ OutDir(log[j]) = <<"res", "images", "md-symbols">>
    /\ \E i \in 1..(Len(log) - 1) : IsConvert(log[i]) /\ log[i].rc # 0

\* 2 + 2 * (number of icon entries + number of symbol entries)
Invocations == 2 + 2 * (Cardinality(IconPairs) + Cardinality(SymbolNames))

\* The log holds a rasterize invocation reading svg, followed at once by a
\* strip invocation of png.
Attempted(svg, png) ==
    \E i \in 1..(Len(log) - 1) :
        /\ IsConvert(log[i]) /\ log[i].args[2] = svg
        /\ IsMogrify(log[i + 1]) /\ Target(log[i + 1]) = png

C10_DistinctOutputPaths ==
    LET converts == { i \in 1..Len(log) : IsConvert(log[i]) }
        written == { Target(log[i]) : i \in converts }
    IN  /\ Cardinality(written) = Cardinality(converts)
        /\ pc = "done" => Cardinality(written) = Cardinality(IconPairs) + Len(SYMBOLS)

\* A finished run that rasterized play_arrow both as an icon and as a
\* symbol, into different directories.
C10_Witness ==
    /\ pc = "done"
    /\ \E i, j \in 1..Len(log) :
          /\ IsConvert(log[i]) /\ Target(log[i]) = IconPng("play_arrow")
          /\ IsConvert(log[j]) /\ Target(log[j]) = SymbolPng("play_arrow")
          /\ log[i].rc = 0 /\ log[j].rc = 0

=============================================================================
